---------------------------- MODULE Spec2Model ----------------------------
(***************************************************************************)
(* The day-event store of calendar_app.py: the in-memory dict              *)
(* CalendarApp.events, its JSON backing file events.json, and the Tk       *)
(* handlers that read and mutate them (startup, month/year selection,      *)
(* the edit dialog, Clear Month).                                          *)
(*                                                                         *)
(* Text is modelled as sequences of one-character strings, the backing     *)
(* file as the sequence of JSON tokens it holds (whitespace carries no     *)
(* meaning for json.loads and is left out), a Python dict as the sequence  *)
(* of its items in insertion order.                                        *)
(***************************************************************************)
EXTENDS Integers, Sequences, FiniteSets, TLC

(***************************************************************************)
(* Bounds of the model and constants of the program.                       *)
(***************************************************************************)
\* Today, as the constructor reads it for the selectors' first values.
CurrentYear == 2024
CurrentMonth == 1
\* Mutating handlers (dialog Save, confirmed Clear Month) per behaviour; the
\* Tk main loop itself is unbounded.
MaxMutations == 2
\* Process starts per behaviour.
MaxStartups == 2
\* File-write failures per behaviour of SpecFaults; they fall among its
\* first MaxFaults mutating handlers.
MaxFaults == 1

\* The year selector offers current_year-5 .. current_year+5, the month
\* selector January .. December, the grid a button per day of the month;
\* the model keeps two years, two months and the first day of each.
Years == {CurrentYear, CurrentYear + 1}
Months == {CurrentMonth, CurrentMonth + 1}
Days == {1}

(***************************************************************************)
(* Text: str(int) and int(str).                                            *)
(***************************************************************************)
DigitChars == <<"0", "1", "2", "3", "4", "5", "6", "7", "8", "9">>

IsDigit(c) == \E i \in 1..10 : DigitChars[i] = c

DigitVal(c) == (CHOOSE i \in 1..10 : DigitChars[i] = c) - 1

\* str(n) for n >= 0: decimal digits, no padding.
RECURSIVE IntToStr(_)
IntToStr(n) ==
    IF n < 10 THEN <<DigitChars[n + 1]>>
    ELSE Append(IntToStr(n \div 10), DigitChars[(n % 10) + 1])

AllDigits(s) == Len(s) > 0 /\ \A i \in 1..Len(s) : IsDigit(s[i])

\* int(s) for a non-empty string of decimal digits (leading zeros accepted).
RECURSIVE StrToInt(_)
StrToInt(s) ==
    IF Len(s) = 0 THEN 0
    ELSE 10 * StrToInt(SubSeq(s, 1, Len(s) - 1)) + DigitVal(s[Len(s)])

\* s.split("-"): the pieces between the dashes, empty pieces included.
RECURSIVE SplitDash(_)
SplitDash(s) ==
    IF \A i \in 1..Len(s) : s[i] # "-" THEN <<s>>
    ELSE LET p == CHOOSE i \in 1..Len(s) :
                     s[i] = "-" /\ \A j \in 1..(i - 1) : s[j] # "-"
         IN  <<SubSeq(s, 1, p - 1)>> \o SplitDash(SubSeq(s, p + 1, Len(s)))

\* Faulty variant of DateKeyToStr: day first, f"{d}-{m}-{y}".
DateKeyToStr_DayFirst(k) ==
    IntToStr(k[3]) \o <<"-">> \o IntToStr(k[2]) \o <<"-">> \o IntToStr(k[1])

\* f"{y}-{m}-{d}"
DateKeyToStr(k) == IntToStr(k[1]) \o <<"-">> \o IntToStr(k[2]) \o <<"-">> \o IntToStr(k[3])

\* y, m, d = map(int, iso_str.split("-")): raises ValueError unless there are
\* exactly three pieces and int() accepts each.
KeyParses(s) ==
    LET parts == SplitDash(s)
    IN  Len(parts) = 3 /\ \A i \in 1..3 : AllDigits(parts[i])

StrToDateKey(s) ==
    LET parts == SplitDash(s)
    IN  <<StrToInt(parts[1]), StrToInt(parts[2]), StrToInt(parts[3])>>

(***************************************************************************)
(* JSON values as Python holds them.  One record shape for every kind:     *)
(*   str  : s the characters          num  : s the digits                  *)
(*   null : nothing                   list : elems the elements            *)
(*   dict : members the items <<name, value>> in insertion order           *)
(***************************************************************************)
JStr(s) == [kind |-> "str", s |-> s, elems |-> <<>>, members |-> <<>>]
JNum(s) == [kind |-> "num", s |-> s, elems |-> <<>>, members |-> <<>>]
JNull == [kind |-> "null", s |-> <<>>, elems |-> <<>>, members |-> <<>>]
JList(es) == [kind |-> "list", s |-> <<>>, elems |-> es, members |-> <<>>]
JDict(ms) == [kind |-> "dict", s |-> <<>>, elems |-> <<>>, members |-> ms]

ChoiceName == <<"c","h","o","i","c","e">>
NoteName == <<"n","o","t","e">>

\* {"choice": c, "note": n}
Record(c, n) == JDict(<< <<ChoiceName, JStr(c)>>, <<NoteName, JStr(n)>> >>)

(***************************************************************************)
(* A Python dict as the sequence of its items <<key, value>>.              *)
(***************************************************************************)
DictKeys(d) == {d[i][1] : i \in 1..Len(d)}

DictHas(d, k) == \E i \in 1..Len(d) : d[i][1] = k

DictGet(d, k) == d[CHOOSE i \in 1..Len(d) : d[i][1] = k][2]

\* d[k] = v: an existing key keeps its place, a new key goes last.
DictPut(d, k, v) ==
    IF DictHas(d, k)
    THEN [i \in 1..Len(d) |-> IF d[i][1] = k THEN <<k, v>> ELSE d[i]]
    ELSE Append(d, <<k, v>>)

RECURSIVE DictFilter(_, _)
\* The items of d whose key is in keep, order kept.
DictFilter(d, keep) ==
    IF Len(d) = 0 THEN <<>>
    ELSE (IF d[1][1] \in keep THEN <<d[1]>> ELSE <<>>) \o DictFilter(Tail(d), keep)


(***************************************************************************)
(* The text of a JSON document as its tokens.  t is the punctuation mark   *)
(* itself, or "str" / "num" (s the content), "null", or "bad": a piece of  *)
(* text that is no JSON token (an unterminated string, a stray word).      *)
(***************************************************************************)
Tok(t, s) == [t |-> t, s |-> s]
Punct(t) == Tok(t, <<>>)
BadTok == Tok("bad", <<>>)

\* sep between the consecutive pieces of a sequence of token sequences.
RECURSIVE JoinToks(_, _)
JoinToks(pieces, sep) ==
    IF Len(pieces) = 0 THEN <<>>
    ELSE IF Len(pieces) = 1 THEN pieces[1]
    ELSE pieces[1] \o <<sep>> \o JoinToks(Tail(pieces), sep)

\* json.dumps(v, indent=2)
RECURSIVE Dumps(_)
Dumps(v) ==
    CASE v.kind = "str" -> <<Tok("str", v.s)>>
      [] v.kind = "num" -> <<Tok("num", v.s)>>
      [] v.kind = "null" -> <<Punct("null")>>
      [] v.kind = "list" ->
            <<Punct("[")>>
            \o JoinToks([i \in 1..Len(v.elems) |-> Dumps(v.elems[i])], Punct(","))
            \o <<Punct("]")>>
      [] v.kind = "dict" ->
            <<Punct("{")>>
            \o JoinToks([i \in 1..Len(v.members) |->
                            <<Tok("str", v.members[i][1]), Punct(":")>>
                            \o Dumps(v.members[i][2])], Punct(","))
            \o <<Punct("}")>>

TokAt(toks, i) == IF i \in 1..Len(toks) THEN toks[i].t ELSE "eof"

ParseFail == [ok |-> FALSE, v |-> JNull, next |-> 0]
ParseOk(v, next) == [ok |-> TRUE, v |-> v, next |-> next]

\* The JSON decoder: one value starting at token i; next is the token after it.
RECURSIVE ParseValue(_, _)
RECURSIVE ParseElems(_, _, _)
RECURSIVE ParseMembers(_, _, _)
ParseValue(toks, i) ==
    CASE TokAt(toks, i) = "str" -> ParseOk(JStr(toks[i].s), i + 1)
      [] TokAt(toks, i) = "num" -> ParseOk(JNum(toks[i].s), i + 1)
      [] TokAt(toks, i) = "null" -> ParseOk(JNull, i + 1)
      [] TokAt(toks, i) = "[" ->
            IF TokAt(toks, i + 1) = "]" THEN ParseOk(JList(<<>>), i + 2)
            ELSE ParseElems(toks, i + 1, <<>>)
      [] TokAt(toks, i) = "{" ->
            IF TokAt(toks, i + 1) = "}" THEN ParseOk(JDict(<<>>), i + 2)
            ELSE ParseMembers(toks, i + 1, <<>>)
      [] OTHER -> ParseFail

\* The elements of a list after "[" or ",", up to the closing "]".
ParseElems(toks, i, acc) ==
    LET r == ParseValue(toks, i)
    IN  IF ~r.ok THEN ParseFail
        ELSE CASE TokAt(toks, r.next) = "," ->
                      ParseElems(toks, r.next + 1, Append(acc, r.v))
               [] TokAt(toks, r.next) = "]" ->
                      ParseOk(JList(Append(acc, r.v)), r.next + 1)
               [] OTHER -> ParseFail

\* Faulty variant of ParseMembers: the end of the text closes the object, so
\* a document cut after a complete member is accepted.
RECURSIVE ParseMembers_Lenient(_, _, _)
ParseMembers_Lenient(toks, i, acc) ==
    IF TokAt(toks, i) # "str" \/ TokAt(toks, i + 1) # ":" THEN ParseFail
    ELSE LET r == ParseValue(toks, i + 2)
         IN  IF ~r.ok THEN ParseFail
             ELSE CASE TokAt(toks, r.next) = "," ->
                           ParseMembers_Lenient(toks, r.next + 1,
                                                DictPut(acc, toks[i].s, r.v))
                    [] TokAt(toks, r.next) = "}" ->
                           ParseOk(JDict(DictPut(acc, toks[i].s, r.v)), r.next + 1)
                    [] TokAt(toks, r.next) = "eof" ->
                           ParseOk(JDict(DictPut(acc, toks[i].s, r.v)), r.next)
                    [] OTHER -> ParseFail

\* The members of an object after "{" or ",", up to the closing "}".  A name
\* met again replaces the earlier value (dict(pairs)).
ParseMembers(toks, i, acc) ==
    IF TokAt(toks, i) # "str" \/ TokAt(toks, i + 1) # ":" THEN ParseFail
    ELSE LET r == ParseValue(toks, i + 2)
         IN  IF ~r.ok THEN ParseFail
             ELSE CASE TokAt(toks, r.next) = "," ->
                           ParseMembers(toks, r.next + 1, DictPut(acc, toks[i].s, r.v))
                    [] TokAt(toks, r.next) = "}" ->
                           ParseOk(JDict(DictPut(acc, toks[i].s, r.v)), r.next + 1)
                    [] OTHER -> ParseFail

\* json.loads(text): one value and nothing after it, else JSONDecodeError.
Loads(toks) ==
    LET r == ParseValue(toks, 1)
    IN  IF r.ok /\ r.next = Len(toks) + 1 THEN r ELSE ParseFail


(***************************************************************************)
(* The program state.                                                      *)
(***************************************************************************)
VARIABLES
    pc,         \* "off": no process; "running": in root.mainloop()
    events,     \* self.events, a dict (y, m, d) -> value
    file,       \* events.json: whether it exists and the tokens it holds
    selYear,    \* int(self.year_var.get())
    selMonth,   \* index of self.month_var.get()
    dlgOpen,    \* the modal edit dialog is up
    dlgKey,     \* the key the dialog captured when it opened
    last,       \* what the last handler was and did (history)
    shadow,     \* what this process was asked to store, while that is the
                \* whole story of its store (history)
    torn,       \* whether the file holds a write cut short (history)
    mutations,  \* mutating handlers run so far
    startups,   \* process starts so far
    faults      \* file-write failures the behaviour may still meet

vars == <<pc, events, file, selYear, selMonth, dlgOpen, dlgKey, last, shadow, torn,
          mutations, startups, faults>>

NoFile == [exists |-> FALSE, toks |-> <<>>]
FileOf(toks) == [exists |-> TRUE, toks |-> toks]

NoKey == <<0, 0, 0>>
NoText == <<>>

\* The last handler that loaded or wrote the store, until another handler runs.
\* op: the handler; key, choice, note: what a Save stored; year, month: what a
\* Clear Month was asked to clear, and removed: the keys it deleted; fault: how
\* the write ended ("none" when the handler did not write); raised: the
\* exception that escaped the handler.
Idle ==
    [op |-> "idle", key |-> NoKey, choice |-> NoText, note |-> NoText,
     year |-> 0, month |-> 0, removed |-> {}, sets |-> <<>>,
     fault |-> "none", raised |-> "none"]

\* sets: what the process before this one was asked to store (its shadow).
LastLoad(raised, sets) == [Idle EXCEPT !.op = "load", !.raised = raised, !.sets = sets]

LastSet(key, choice, note, fault, raised) ==
    [Idle EXCEPT !.op = "set", !.key = key, !.choice = choice, !.note = note,
                 !.fault = fault, !.raised = raised]

LastClear(year, month, removed, fault, raised) ==
    [Idle EXCEPT !.op = "clear", !.year = year, !.month = month, !.removed = removed,
                 !.fault = fault, !.raised = raised]

\* A value of the shape {"choice": <string>, "note": <string>}.
IsRecord(v) ==
    /\ v.kind = "dict"
    /\ Len(v.members) = 2
    /\ DictKeys(v.members) = {ChoiceName, NoteName}
    /\ \A i \in 1..2 : v.members[i][2].kind = "str"

\* shadow: date -> <<choice, note>>, the records this process found in its
\* store at start and those it was then asked to store; n counts the latter.
\* It is kept while the process started from a store of {choice, note}
\* records only (the empty store is one) and every handler that changed the
\* store since was a Save whose write succeeded.
NoShadow == [valid |-> FALSE, n |-> 0, map |-> <<>>]

ShadowOf(ev) ==
    IF \A i \in 1..Len(ev) : IsRecord(ev[i][2])
    THEN [valid |-> TRUE, n |-> 0,
          map |-> [i \in 1..Len(ev) |->
                     <<ev[i][1], <<DictGet(ev[i][2].members, ChoiceName).s,
                                   DictGet(ev[i][2].members, NoteName).s>> >>]]
    ELSE NoShadow

\* torn: "no"; "torn" once a write was cut short; "loaded" once a process
\* started on that file; "healed" once a later write replaced it.
TornAfterWrite(t, fault) ==
    CASE fault = "torn" -> "torn"
      [] fault = "denied" -> t
      [] fault = "ok" -> IF t \in {"loaded", "healed"} THEN "healed" ELSE "no"

(***************************************************************************)
(* draw_calendar: what it reads of the store.                              *)
(***************************************************************************)
\* bool(v)
Truthy(v) ==
    CASE v.kind = "str" -> Len(v.s) > 0
      [] v.kind = "num" -> StrToInt(v.s) # 0
      [] v.kind = "null" -> FALSE
      [] v.kind = "list" -> Len(v.elems) > 0
      [] v.kind = "dict" -> Len(v.members) > 0

\* event_data.get('choice') on a value that is truthy and no dict raises
\* AttributeError.
GetRaises(ev, k) ==
    DictHas(ev, k) /\ Truthy(DictGet(ev, k)) /\ DictGet(ev, k).kind # "dict"

\* draw_calendar() walks the days in order and raises at the first such value.
DrawRaises(ev, y, m) == \E d \in Days : GetRaises(ev, <<y, m, d>>)

\* The day buttons a draw leaves on the grid: those created before it raised.
Buttons(ev, y, m) ==
    {d \in Days : \A e \in 1..d : ~GetRaises(ev, <<y, m, e>>)}

DrawOutcome(ev, y, m) == IF DrawRaises(ev, y, m) THEN "draw" ELSE "none"

(***************************************************************************)
(* Persistence helpers.                                                    *)
(***************************************************************************)
\* Faulty variant of LoadValue: no upgrade of a plain string.
LoadValue_NoUpgrade(value) == value

\* One iteration of the loop of _load_events.
LoadValue(value) ==
    IF value.kind = "str" THEN Record(value.s, <<>>) ELSE value

\* The loop of _load_events over data.items(), from item i on: it stops at
\* the first key int() or the unpacking rejects, keeping what it stored.
RECURSIVE LoadItems(_, _, _)
LoadItems(ev, items, i) ==
    IF i > Len(items) THEN ev
    ELSE IF ~KeyParses(items[i][1]) THEN ev
    ELSE LoadItems(DictPut(ev, StrToDateKey(items[i][1]), LoadValue(items[i][2])),
                   items, i + 1)

\* _load_events: self.events after it, from self.events = ev before it.
LoadEvents(f, ev) ==
    IF ~f.exists THEN ev
    ELSE LET r == Loads(f.toks)
         IN  IF ~r.ok THEN ev
             ELSE IF r.v.kind # "dict" THEN ev
             ELSE LoadItems(ev, r.v.members, 1)

\* data = {f"{y}-{m}-{d}": value for (y, m, d), value in self.events.items()}
SaveData(ev) == JDict([i \in 1..Len(ev) |-> <<DateKeyToStr(ev[i][1]), ev[i][2]>>])

\* A write cut short after `cut` whole tokens; with mid, inside the next one,
\* which leaves an unterminated string or a broken word when that token is
\* longer than one character.
TornText(toks, cut, mid) ==
    SubSeq(toks, 1, cut)
    \o (IF mid /\ toks[cut + 1].t \in {"str", "null"} THEN <<BadTok>> ELSE <<>>)

\* Faulty variant of WriteText: the text is appended (mode "a").
WriteText_Append(f, toks, fault, cut, mid) ==
    CASE fault = "ok" -> FileOf(f.toks \o toks)
      [] fault = "denied" -> f
      [] fault = "torn" -> FileOf(f.toks \o TornText(toks, cut, mid))

\* Faulty variant of WriteText: the file is opened for update (mode "r+"),
\* which does not create it.
WriteText_NoCreate(f, toks, fault, cut, mid) ==
    IF ~f.exists THEN f
    ELSE CASE fault = "ok" -> FileOf(toks)
           [] fault = "denied" -> f
           [] fault = "torn" -> FileOf(TornText(toks, cut, mid))

\* Path.write_text(text): open(mode "w") truncates, then the text is written.
\* fault "ok": all of it; "denied": open() fails and the file is as it was;
\* "torn": the write stops part way (an OSError such as a full disk; a
\* process killed part way leaves the same file as a torn write followed by
\* Exit).
WriteText(f, toks, fault, cut, mid) ==
    CASE fault = "ok" -> FileOf(toks)
      [] fault = "denied" -> f
      [] fault = "torn" -> FileOf(TornText(toks, cut, mid))

\* _save_events: the file after it.
SaveEvents(ev, f, fault, cut, mid) == WriteText(f, Dumps(SaveData(ev)), fault, cut, mid)

\* Faulty variant of SaveRaises: no except clause around the write.
SaveRaises_Uncaught(fault) == fault # "ok"

\* What escapes _save_events: its except clause swallows every Exception.
SaveRaises(fault) == FALSE

\* The ways a write of toks can end, as <<fault, cut, mid>>; a cut inside a
\* token is told apart where that token is longer than one character.
WriteFates(toks) ==
    {<<"ok", 0, FALSE>>}
    \cup (IF faults > 0 /\ mutations < MaxFaults
          THEN {<<"denied", 0, FALSE>>}
               \cup {<<"torn", c, FALSE>> : c \in 0..(Len(toks) - 1)}
               \cup {<<"torn", c, TRUE>> :
                        c \in {d \in 0..(Len(toks) - 1) : toks[d + 1].t \in {"str", "null"}}}
          ELSE {})


(***************************************************************************)
(* What the user can enter in the dialog.                                  *)
(***************************************************************************)
\* EVENT_CHOICES, shortened to its first label, EVENT_CHOICES[0].
EventChoices == {<<"A">>}
\* Texts typed in the note box.
NoteTexts == {<<>>, <<"n">>}

\* The combobox is read-only, so besides the labels of EVENT_CHOICES the only
\* text sel_var can hold is the one it was created with: existing.get("choice")
\* (a string as is, a number as its digits, None as ""); other kinds of
\* preset are left out.
PresetChoices(ev, key) ==
    IF DictHas(ev, key) /\ Truthy(DictGet(ev, key)) /\ DictGet(ev, key).kind = "dict"
    THEN LET ms == DictGet(ev, key).members
         IN  IF ~DictHas(ms, ChoiceName) THEN {<<>>}
             ELSE IF DictGet(ms, ChoiceName).kind \in {"str", "num"}
                  THEN {DictGet(ms, ChoiceName).s}
             ELSE IF DictGet(ms, ChoiceName).kind = "null" THEN {<<>>}
             ELSE {}
    ELSE {}

(***************************************************************************)
(* Files found on disk when the program first starts.                      *)
(***************************************************************************)
KeyText(y, m, d) == DateKeyToStr(<<y, m, d>>)

GoodEntries ==
    << <<KeyText(2024, 1, 1), Record(<<"A">>, <<"n">>)>>,
       <<KeyText(2024, 2, 1), Record(<<"B">>, <<>>)>>,
       <<KeyText(2025, 1, 1), Record(<<>>, <<>>)>> >>

\* Keys that are not <int>-<int>-<int>.
BadKeys ==
    { <<"x">>,
      <<"2","0","2","4","-","1">>,
      <<"2","0","2","4","-","1","-","1","-","1">>,
      <<"2","0","2","4","-","-","1">> }

\* Values that are neither a string nor a {choice, note} record.
OddValues ==
    { JNum(<<"5">>), JNum(<<"0">>), JNull, JList(<<>>), JList(<<JStr(<<"A">>)>>),
      JDict(<<>>), JDict(<< <<<<"f">>, JStr(<<"A">>)>> >>),
      JDict(<< <<ChoiceName, JNum(<<"5">>)>> >>) }

InsertAt(seq, pos, e) == SubSeq(seq, 1, pos) \o <<e>> \o SubSeq(seq, pos + 1, Len(seq))

DocText(members) == Dumps(JDict(members))

StructuredDocs ==
    { DocText(SubSeq(GoodEntries, 1, n)) : n \in 0..Len(GoodEntries) }

LegacyDocs ==
    { DocText(<< <<KeyText(2024, 1, 1), JStr(<<"X">>)>>, GoodEntries[2] >>),
      DocText(<< GoodEntries[2], <<KeyText(2024, 1, 1), JStr(<<"X">>)>>,
                 <<KeyText(2025, 1, 1), JStr(<<>>)>> >>) }

BadKeyDocs ==
    { DocText(InsertAt(SubSeq(GoodEntries, 1, 2), pos, <<k, Record(<<"A">>, <<>>)>>)) :
        pos \in 0..2, k \in BadKeys }

OddValueDocs ==
    { DocText(<< GoodEntries[3], <<KeyText(2024, m, 1), v>> >>) :
        m \in 1..2, v \in OddValues }

\* Zero-padded keys: int() reads them as the same date.
PaddedDocs ==
    { DocText(<< <<<<"2","0","2","4","-","0","1","-","1">>, JStr(<<"X">>)>>,
                 GoodEntries[1] >>),
      DocText(<< <<<<"2","0","2","4","-","0","2","-","0","1">>, Record(<<"A">>, <<>>)>> >>) }

\* Documents that parse and are no mapping.
NonMappingDocs ==
    { Dumps(JList(<<>>)), Dumps(JList(<<Record(<<"A">>, <<>>)>>)),
      Dumps(JStr(<<"X">>)), Dumps(JNum(<<"5">>)), Dumps(JNull) }

\* Text json.loads rejects.
UnparsableDocs ==
    { <<>>, <<BadTok>>, <<Punct("{")>>,
      DocText(<<>>) \o DocText(<<>>),
      <<Punct("{"), Tok("str", KeyText(2024, 1, 1)), Punct(":"),
        Tok("str", <<"X">>), Punct(","), Punct("}")>> }

InitFiles ==
    {NoFile}
    \cup { FileOf(t) : t \in StructuredDocs \cup LegacyDocs \cup BadKeyDocs
                            \cup OddValueDocs \cup PaddedDocs
                            \cup NonMappingDocs \cup UnparsableDocs }

(***************************************************************************)
(* Init and the handlers.                                                  *)
(***************************************************************************)
Init ==
    /\ pc = "off"
    /\ events = <<>>
    /\ file \in InitFiles
    /\ selYear = CurrentYear
    /\ selMonth = CurrentMonth
    /\ dlgOpen = FALSE
    /\ dlgKey = NoKey
    /\ last = Idle
    /\ shadow = NoShadow
    /\ torn = "no"
    /\ mutations = 0
    /\ startups = 0
    /\ faults = 0

\* The same program on a disk whose writes can fail.
FaultInitFiles ==
    {NoFile}
    \cup { FileOf(DocText(<< GoodEntries[1], <<KeyText(2024, 2, 1), JNum(<<"5">>)>>,
                             GoodEntries[3] >>)) }

InitFaults ==
    /\ pc = "off"
    /\ events = <<>>
    /\ file \in FaultInitFiles
    /\ selYear = CurrentYear
    /\ selMonth = CurrentMonth
    /\ dlgOpen = FALSE
    /\ dlgKey = NoKey
    /\ last = Idle
    /\ shadow = NoShadow
    /\ torn = "no"
    /\ mutations = 0
    /\ startups = 0
    /\ faults = MaxFaults

\* CalendarApp(): self.events = {}, _load_events(), the selectors set to
\* today, draw_calendar().  An exception of the first draw ends the process.
Startup ==
    /\ pc = "off"
    /\ startups < MaxStartups
    /\ startups' = startups + 1
    /\ events' = LoadEvents(file, <<>>)
    /\ selYear' = CurrentYear
    /\ selMonth' = CurrentMonth
    /\ dlgOpen' = FALSE
    /\ dlgKey' = NoKey
    /\ pc' = IF DrawRaises(events', CurrentYear, CurrentMonth) THEN "off" ELSE "running"
    /\ last' = LastLoad(DrawOutcome(events', CurrentYear, CurrentMonth),
                        IF shadow.valid /\ shadow.n > 0 THEN shadow.map ELSE <<>>)
    /\ shadow' = ShadowOf(events')
    /\ torn' = IF torn = "torn" THEN "loaded" ELSE torn
    /\ UNCHANGED <<file, mutations, faults>>

\* <<ComboboxSelected>> of year_box: draw_calendar().
SelectYear(y) ==
    /\ pc = "running" /\ ~dlgOpen
    /\ y # selYear
    /\ selYear' = y
    /\ last' = Idle
    /\ UNCHANGED <<pc, events, file, selMonth, dlgOpen, dlgKey, shadow, torn, mutations, startups, faults>>

\* <<ComboboxSelected>> of month_box: draw_calendar().
SelectMonth(m) ==
    /\ pc = "running" /\ ~dlgOpen
    /\ m # selMonth
    /\ selMonth' = m
    /\ last' = Idle
    /\ UNCHANGED <<pc, events, file, selYear, dlgOpen, dlgKey, shadow, torn, mutations, startups, faults>>

\* A day button: open_event_dialog(day).
OpenDialog(d) ==
    /\ pc = "running" /\ ~dlgOpen
    /\ d \in Buttons(events, selYear, selMonth)
    /\ dlgOpen' = TRUE
    /\ dlgKey' = <<selYear, selMonth, d>>
    /\ last' = Idle
    /\ UNCHANGED <<pc, events, file, selYear, selMonth, shadow, torn, mutations, startups, faults>>

\* The dialog's Cancel button: dialog.destroy.
DialogCancel ==
    /\ pc = "running" /\ dlgOpen
    /\ dlgOpen' = FALSE
    /\ dlgKey' = NoKey
    /\ last' = Idle
    /\ UNCHANGED <<pc, events, file, selYear, selMonth, shadow, torn, mutations, startups, faults>>

\* self.events[key] = {"choice": ..., "note": ...}
SetRecord(ev, key, choice, note) == DictPut(ev, key, Record(choice, note))

\* The dialog's Save button: save_and_close().
DialogSave(choice, note, fate) ==
    /\ pc = "running" /\ dlgOpen
    /\ mutations < MaxMutations
    /\ mutations' = mutations + 1
    /\ events' = SetRecord(events, dlgKey, choice, note)
    /\ file' = SaveEvents(events', file, fate[1], fate[2], fate[3])
    /\ faults' = IF fate[1] = "ok" THEN faults ELSE faults - 1
    /\ IF SaveRaises(fate[1])
       THEN /\ UNCHANGED <<dlgOpen, dlgKey>>
            /\ last' = LastSet(dlgKey, choice, note, fate[1], "save")
       ELSE /\ dlgOpen' = FALSE
            /\ dlgKey' = NoKey
            /\ last' = LastSet(dlgKey, choice, note, fate[1],
                               DrawOutcome(events', selYear, selMonth))
    /\ shadow' = IF shadow.valid /\ fate[1] = "ok"
                 THEN [shadow EXCEPT !.n = @ + 1,
                                     !.map = DictPut(@, dlgKey, <<choice, note>>)]
                 ELSE NoShadow
    /\ torn' = TornAfterWrite(torn, fate[1])
    /\ UNCHANGED <<pc, selYear, selMonth, startups>>

\* Faulty variant of KeysToRemove: the year is not compared.
KeysToRemove_AnyYear(ev, y, m) == {k \in DictKeys(ev) : k[2] = m}

\* keys_to_remove = [k for k in self.events if k[0] == year and k[1] == month_index]
KeysToRemove(ev, y, m) == {k \in DictKeys(ev) : k[1] = y /\ k[2] = m}

\* for k in keys_to_remove: del self.events[k]
RemoveKeys(ev, ks) == DictFilter(ev, DictKeys(ev) \ ks)

\* The Clear Month button, the confirmation answered yes.
ClearMonthYes(fate) ==
    /\ pc = "running" /\ ~dlgOpen
    /\ mutations < MaxMutations
    /\ mutations' = mutations + 1
    /\ events' = RemoveKeys(events, KeysToRemove(events, selYear, selMonth))
    /\ file' = SaveEvents(events', file, fate[1], fate[2], fate[3])
    /\ faults' = IF fate[1] = "ok" THEN faults ELSE faults - 1
    /\ last' = LastClear(selYear, selMonth, KeysToRemove(events, selYear, selMonth),
                         fate[1],
                         IF SaveRaises(fate[1]) THEN "save"
                         ELSE DrawOutcome(events', selYear, selMonth))
    /\ shadow' = NoShadow
    /\ torn' = TornAfterWrite(torn, fate[1])
    /\ UNCHANGED <<pc, selYear, selMonth, dlgOpen, dlgKey, startups>>

\* Faulty variant of ClearMonthNo: the answer is not looked at, and the month
\* is cleared and saved all the same.
ClearMonthNo_Ignored ==
    /\ pc = "running" /\ ~dlgOpen
    /\ events' = RemoveKeys(events, KeysToRemove(events, selYear, selMonth))
    /\ file' = SaveEvents(events', file, "ok", 0, FALSE)
    /\ last' = Idle
    /\ UNCHANGED <<pc, selYear, selMonth, dlgOpen, dlgKey, shadow, torn,
                   mutations, startups, faults>>

\* The Clear Month button, the confirmation answered no: return.
ClearMonthNo ==
    /\ pc = "running" /\ ~dlgOpen
    /\ last' = Idle
    /\ UNCHANGED <<pc, events, file, selYear, selMonth, dlgOpen, dlgKey, shadow, torn,
                   mutations, startups, faults>>

\* The window is closed: root.mainloop() returns and the process ends.
Exit ==
    /\ pc = "running"
    /\ pc' = "off"
    /\ dlgOpen' = FALSE
    /\ dlgKey' = NoKey
    /\ last' = Idle
    /\ UNCHANGED <<events, file, selYear, selMonth, shadow, torn,
                   mutations, startups, faults>>

Next ==
    \/ Startup
    \/ \E y \in Years : SelectYear(y)
    \/ \E m \in Months : SelectMonth(m)
    \/ \E d \in Days : OpenDialog(d)
    \/ DialogCancel
    \/ \E c \in EventChoices \cup PresetChoices(events, dlgKey), n \in NoteTexts :
         \E fate \in WriteFates(Dumps(SaveData(SetRecord(events, dlgKey, c, n)))) :
            DialogSave(c, n, fate)
    \/ \E fate \in WriteFates(Dumps(SaveData(
                      RemoveKeys(events, KeysToRemove(events, selYear, selMonth))))) :
         ClearMonthYes(fate)
    \/ ClearMonthNo
    \/ Exit

Spec == Init /\ [][Next]_vars

SpecFaults == InitFaults /\ [][Next]_vars


(***************************************************************************)
(* Notions the claims are stated in.                                       *)
(***************************************************************************)
\* Two stores hold the same dates with the same values.
SameMap(a, b) ==
    /\ DictKeys(a) = DictKeys(b)
    /\ \A k \in DictKeys(a) : DictGet(a, k) = DictGet(b, k)

\* A store has one entry per date.
NoDuplicates(ev) == Len(ev) = Cardinality(DictKeys(ev))

\* v is the record {choice: c, note: n}.
HasFields(v, c, n) ==
    /\ IsRecord(v)
    /\ DictGet(v.members, ChoiceName) = JStr(c)
    /\ DictGet(v.members, NoteName) = JStr(n)

\* What a new process would find in its store after loading file f.
FreshLoad(f) == LoadEvents(f, <<>>)

\* A key in the persisted format: "{year}-{month}-{day}", no zero padding.
IsFormatKey(s) == KeyParses(s) /\ DateKeyToStr(StrToDateKey(s)) = s

\* The file holds unparsable text, a document that is no mapping, or a
\* mapping with a key that is not <int>-<int>-<int>.
Malformed(f) ==
    /\ f.exists
    /\ LET r == Loads(f.toks)
       IN  \/ ~r.ok
           \/ r.v.kind # "dict"
           \/ \E i \in 1..Len(r.v.members) : ~KeyParses(r.v.members[i][1])

\* The file holds a mapping in the persisted format whose values are plain
\* strings or {choice, note} records, at least one of them a plain string.
LegacyFile(f) ==
    /\ f.exists
    /\ LET r == Loads(f.toks)
       IN  /\ r.ok
           /\ r.v.kind = "dict"
           /\ \A i \in 1..Len(r.v.members) :
                /\ IsFormatKey(r.v.members[i][1])
                /\ r.v.members[i][2].kind = "str" \/ IsRecord(r.v.members[i][2])
           /\ \E i \in 1..Len(r.v.members) : r.v.members[i][2].kind = "str"

\* The file holds exactly the store ev: a mapping with one member per entry,
\* keyed "{year}-{month}-{day}", and nothing else.
FileHolds(f, ev) ==
    /\ f.exists
    /\ LET r == Loads(f.toks)
       IN  /\ r.ok
           /\ r.v.kind = "dict"
           /\ Len(r.v.members) = Len(ev)
           /\ \A k \in DictKeys(ev) :
                /\ DictHas(r.v.members, DateKeyToStr(k))
                /\ DictGet(r.v.members, DateKeyToStr(k)) = DictGet(ev, k)
    /\ Len(f.toks) = Len(Dumps(SaveData(ev)))

\* The step is a process start / a handler that changed the store.
IsStartup == startups' = startups + 1
IsMutation == mutations' = mutations + 1

(***************************************************************************)
(* The claims.                                                             *)
(***************************************************************************)

\* C1 (round trip): when a process that started from a store of {choice, note}
\* records (the empty store included) and then only ran Saves, each written
\* successfully, is followed by a new process, the new process's load gives,
\* for every date, the {choice, note} most recently stored for it, one entry
\* per date, and no entry for any other date; empty choice and empty note
\* included.
C1_RoundTrip ==
    (last.op = "load" /\ Len(last.sets) > 0) =>
        /\ DictKeys(events) = DictKeys(last.sets)
        /\ NoDuplicates(events)
        /\ \A k \in DictKeys(last.sets) :
             HasFields(DictGet(events, k), DictGet(last.sets, k)[1], DictGet(last.sets, k)[2])

\* A new process has loaded what a process that stored two or more dates,
\* one of them with empty choice and empty note, had written.
C1_Witness ==
    /\ last.op = "load"
    /\ pc = "running"
    /\ Len(last.sets) >= 2
    /\ \E k \in DictKeys(last.sets) : DictGet(last.sets, k) = <<NoText, NoText>>
    /\ \E k \in DictKeys(last.sets) : DictGet(last.sets, k)[2] # NoText
    /\ Len(events) >= 2

\* C2 (malformed file tolerance): right after the load of a malformed file
\* (unparsable, no mapping, or a mapping with a key that is not
\* <int>-<int>-<int>, wherever that key stands) the store is empty.
C2_MalformedLeavesEmpty ==
    (last.op = "load" /\ Malformed(file)) => events = <<>>

\* C3 (memory/disk convergence): right after a Save or a confirmed Clear Month
\* whose write succeeded, the file holds exactly the in-memory map: one
\* member per key, keyed "{year}-{month}-{day}", and no other text.
C3_FileIsWholeMap ==
    (last.op \in {"set", "clear"} /\ last.fault = "ok") => FileHolds(file, events)

\* A second successful write has replaced a longer or different document.
C3_Witness ==
    /\ last.op \in {"set", "clear"}
    /\ last.fault = "ok"
    /\ mutations = MaxMutations
    /\ Len(events) >= 2
    /\ \E i \in 1..Len(events) : ~IsRecord(events[i][2])

\* C4 (bulk delete scoping): a confirmed Clear Month of (Y, M) removes every
\* entry of year Y and month M, keeps every other entry with its value, adds
\* none, and, its write succeeding, a fresh load of the file gives exactly
\* the remaining entries.
C4_ClearMonthScoped ==
    [][ (IsMutation /\ last'.op = "clear") =>
          /\ last'.year = selYear /\ last'.month = selMonth
          /\ \A k \in DictKeys(events) :
               IF k[1] = selYear /\ k[2] = selMonth
               THEN ~DictHas(events', k)
               ELSE DictHas(events', k) /\ DictGet(events', k) = DictGet(events, k)
          /\ DictKeys(events') \subseteq DictKeys(events)
          /\ NoDuplicates(events')
          /\ (last'.fault = "ok" =>
                /\ SameMap(FreshLoad(file'), events')
                /\ NoDuplicates(FreshLoad(file'))) ]_vars

\* A Clear Month removed something and left an entry of the same year in
\* another month and one of the same month in another year; its write
\* succeeded.
C4_Witness ==
    /\ last.op = "clear"
    /\ last.fault = "ok"
    /\ last.removed # {}
    /\ \E k \in DictKeys(events) : k[1] = last.year /\ k[2] # last.month
    /\ \E k \in DictKeys(events) : k[1] # last.year /\ k[2] = last.month

C6_WriteFailureContained ==
    (last.op \in {"set", "clear"} /\ last.fault \in {"denied", "torn"}) =>
        /\ last.raised # "save"
        /\ pc = "running"
        /\ ~dlgOpen
        /\ last.op = "set" =>
             /\ DictHas(events, last.key)
             /\ HasFields(DictGet(events, last.key), last.choice, last.note)
        /\ last.op = "clear" =>
             \A k \in DictKeys(events) : ~(k[1] = last.year /\ k[2] = last.month)
        /\ ENABLED ClearMonthNo
        /\ ENABLED (\E m \in Months : SelectMonth(m))
        /\ ENABLED (\E d \in Days : OpenDialog(d))

\* A Save met a write cut short and its record is in the store.
C6_Witness ==
    /\ last.op = "set"
    /\ last.fault = "torn"
    /\ DictHas(events, last.key)
    /\ ~FileHolds(file, events)

\* C7 (writes after mutations only): the file changes only in a Save or a
\* confirmed Clear Month; the store changes only in those and in the load at
\* start, which leaves the file as it is; selecting a year or a month,
\* opening the dialog, Cancel, answering no to Clear Month and closing the
\* window change neither.
C7_WritesOnlyAfterMutation ==
    [][ /\ file' # file => (IsMutation /\ last'.op \in {"set", "clear"})
        /\ events' # events =>
             \/ IsMutation /\ last'.op \in {"set", "clear"}
             \/ IsStartup /\ last'.op = "load"
        /\ IsStartup => file' = file
        /\ ( \/ \E y \in Years : SelectYear(y)
             \/ \E m \in Months : SelectMonth(m)
             \/ \E d \in Days : OpenDialog(d)
             \/ DialogCancel
             \/ ClearMonthNo
             \/ Exit ) => (events' = events /\ file' = file) ]_vars

\* The process runs on a store of two or more entries and a file that
\* differs from it, no handler having changed the store.
C7_Witness ==
    /\ pc = "running"
    /\ last = Idle
    /\ mutations = 0
    /\ Len(events) >= 2
    /\ ~FileHolds(file, events)

\* C8 (missing file tolerance): the start of a process with no file leaves
\* the store empty, raises nothing and leaves the file missing; a Save that
\* then finds the store empty and the file missing and whose write succeeds
\* creates the file with exactly the one entry saved.
C8_MissingFile ==
    [][ /\ (IsStartup /\ ~file.exists) =>
             /\ events' = <<>>
             /\ ~file'.exists
             /\ last'.raised = "none"
             /\ pc' = "running"
        /\ (IsMutation /\ last'.op = "set" /\ last'.fault = "ok"
              /\ ~file.exists /\ events = <<>>) =>
             /\ file'.exists
             /\ Len(events') = 1
             /\ FileHolds(file', events')
             /\ LET ms == Loads(file'.toks).v.members
                IN  /\ Len(ms) = 1
                    /\ ms[1][1] = DateKeyToStr(last'.key)
                    /\ HasFields(ms[1][2], last'.choice, last'.note) ]_vars

\* The first handler to change the store of a process that started with no
\* file was a Save, and the file now holds its one entry.
C8_Witness ==
    /\ last.op = "set"
    /\ last.fault = "ok"
    /\ startups = 1
    /\ mutations = 1
    /\ Len(events) = 1
    /\ file.exists

\* C9 (canonical record shape): every value of the store is a record of
\* exactly the two string fields choice and note.
C9_CanonicalShape ==
    \A i \in 1..Len(events) : IsRecord(events[i][2])

\* C10 (crash-mid-write tolerance): a process started on a file that a write
\* cut short, whatever strict prefix of the serialization the write left,
\* finds its store empty and raises nothing; and the next successful write
\* after that start leaves a well-formed document that loads back to exactly
\* the store.
C10_TornWrite ==
    [][ /\ (IsStartup /\ torn = "torn") =>
             /\ events' = <<>>
             /\ last'.raised = "none"
             /\ pc' = "running"
        /\ (IsMutation /\ last'.fault = "ok" /\ torn = "loaded") =>
             /\ Loads(file'.toks).ok
             /\ SameMap(FreshLoad(file'), events')
             /\ NoDuplicates(FreshLoad(file')) ]_vars

\* A process that started on a file cut short found its store empty, then
\* stored a record and wrote it.
C10_Witness ==
    /\ torn = "healed"
    /\ last.op = "set"
    /\ last.fault = "ok"
    /\ Len(events) = 1
    /\ FileHolds(file, events)

=============================================================================
